---- MODULE Spec2Model ----
(***************************************************************************)
(* Model of package parallel (src/parallel.go): the bounded dispatchers    *)
(* Func.Do and Funcs.Do, the channel-backed counting Semaphore and the     *)
(* lock-free error aggregator Errors.                                      *)
(*                                                                         *)
(* A goroutine is a process with a program counter; every atomic memory    *)
(* operation (channel send/receive, CAS, atomic load, WaitGroup op) is one *)
(* step.  A Semaphore is a buffered channel: only its capacity and the     *)
(* number of buffered elements matter, so it is the record [cap, len].     *)
(***************************************************************************)
EXTENDS Integers, Sequences, FiniteSets, TLC

\* ------------------------------------------------------------------ bounds
MaxCount == 2        \* largest count given to Func.Do
MaxFns == 2          \* largest length of the Funcs set
MaxCalls == 2        \* Do calls made one after the other by the caller
MaxParallel == 1     \* largest maxParallel[0] given to a Do call
MaxSem == 2          \* largest max given to NewSemaphore by a direct user
NumCallers == 2      \* goroutines using a Semaphore directly
NumAdds == 3         \* concurrent Add calls on an Errors used directly

\* runtime.GOMAXPROCS(0), read once at start-up (parallel.go:248)
maxproc == 2

\* ------------------------------------------------------------------ values
Ops == {"f", "g"}                 \* the Func values of the caller
FnRecv == "f"                      \* the receiver of the Func.Do calls
NilErr == "nil"                    \* the nil error
ErrVals == {"err1", "err2"}        \* the non-nil errors a task may return
NilPtr == 0                        \* (*[]error)(nil)

MaxOf(a, b) == IF a >= b THEN a ELSE b
MaxUnits == MaxOf(MaxCount, MaxFns)
Units == 0..(MaxUnits - 1)         \* goroutine i runs unit i

\* The pointers a goroutine can publish in p.errs: its new([]error) of
\* line 145 and the &newVal of line 159 whose CAS succeeded.  Both are fresh
\* allocations, distinct from every pointer still referenced elsewhere.
InitPtr(i) == 2 * i + 1
NewValPtr(i) == 2 * i + 2

\* The maxParallel ...int arguments tried: absent, negative, zero, positive.
MaxParallelArgs == {<<>>} \cup { <<m>> : m \in (-1)..MaxParallel }

\* The Funcs values tried: what Funcs.Add (lines 82-84) builds from the zero
\* value when the caller adds f, g, f, ... in turn, up to MaxFns elements.
AddedInTurn(k) == [p \in 1..k |-> IF p % 2 = 1 THEN "f" ELSE "g"]
FuncsValues == { AddedInTurn(k) : k \in 0..MaxFns }

Callers == 1..NumCallers
Adders == 1..NumAdds               \* adder a makes one Add call

VARIABLES
    fns,        \* the Funcs value (a sequence of Func values)
    calls,      \* the Do calls made so far; the last one is the current call
    dpc,        \* the caller: "idle", "wait" (in wg.Wait), "panic"
    ret,        \* what the last Do call returned
    sema,       \* the call's Semaphore: [cap, len]
    wg,         \* the call's sync.WaitGroup counter
    errs,       \* the call's Errors: [ptr, list] (p.errs and the slice it points to)
    upc,        \* upc[i]: where goroutine i is
    uerr,       \* uerr[i]: what the task of goroutine i returned
    current,    \* current[i]: the snapshot goroutine i loaded in Errors.Add
    invoked,    \* invoked[<<op, idx>>]: how many times op was called with idx
    sst,        \* a directly used Semaphore: "new", "ready", "panic"
    sem,        \* that Semaphore: [cap, len]
    cpc,        \* cpc[c]: the Semaphore method caller c is inside, or "idle"
    cok,        \* cok[c]: the ok of caller c's last MaybeAcquire
    crel,       \* crel[c]: the release func caller c holds: "none", "noop", "Release"
    pe,         \* a directly used Errors: [ptr, list]
    apc,        \* apc[a]: where adder a is in its Add call
    aerr,       \* aerr[a]: the error adder a passes to Add
    acur        \* acur[a]: the snapshot adder a loaded (line 150)

dvars == <<fns, calls, dpc, ret, sema, wg, errs, upc, uerr, current, invoked>>
svars == <<sst, sem, cpc, cok, crel>>
evars == <<pe, apc, aerr, acur>>
vars == <<dvars, svars, evars>>

\* NewSemaphorePanics with a fault: only a negative max is refused
NewSemaphorePanicsNegative(m) == m < 0

\* ------------------------------------------------------------ Semaphore
\* NewSemaphore (parallel.go:199-204): panics when max < 1.
NewSemaphorePanics(m) == m < 1
NewSemaphore(m) == [cap |-> m, len |-> 0]

\* CanSend with a fault: the last slot of the buffer is never handed out
CanSendKeepsOne(s) == s.len + 1 < s.cap

\* s <- struct{}{} (lines 208, 218, 233): a send on a buffered channel
\* proceeds only while the buffer is not full.
CanSend(s) == s.len < s.cap
Send(s) == [s EXCEPT !.len = @ + 1]

\* CanRecv with a fault: Release decrements a counter without waiting for a token
RecvNeverBlocks(s) == TRUE

\* <-s (line 243): a receive proceeds only while the buffer is not empty.
CanRecv(s) == s.len > 0
Recv(s) == [s EXCEPT !.len = @ - 1]

\* ------------------------------------------------------------ Errors
ZeroErrors == [ptr |-> NilPtr, list |-> <<>>]

\* multierr.Combine: nil for no errors, else the combination of the list.
\* The result records whether it is nil and the list the combiner was given.
NilResult == [nil |-> TRUE, handed |-> <<>>]
Combine(list) == [nil |-> list = <<>>, handed |-> list]

\* Errors.Err (parallel.go:169-174)
ErrorsErr(p) == IF p.ptr = NilPtr THEN NilResult ELSE Combine(p.list)

\* ------------------------------------------------------------ dispatcher
\* EffectiveMax with a fault: maxParallel[0] = 0 is taken as the cap
EffectiveMaxNonNegative(maxParallel) ==
    IF Len(maxParallel) # 0 /\ maxParallel[1] >= 0 THEN maxParallel[1] ELSE maxproc

\* lines 55-58 and 103-106: the cap of a Do call
EffectiveMax(maxParallel) ==
    IF Len(maxParallel) # 0 /\ maxParallel[1] > 0 THEN maxParallel[1] ELSE maxproc

NoCall == [kind |-> "none", count |-> 0]
Call == IF calls = <<>> THEN NoCall ELSE calls[Len(calls)]

\* the goroutines of the current call
Spawned == 0..(Call.count - 1)

\* the Func goroutine i runs: the receiver fn of Func.Do (line 65), or the
\* element of fns at i (line 110: for i, fn := range fns)
OpOf(i) == IF Call.kind = "Func" THEN FnRecv ELSE fns[i + 1]

Keys == Ops \X Units

SemInit ==
    /\ sst = "new"
    /\ sem = [cap |-> 0, len |-> 0]
    /\ cpc = [c \in Callers |-> "idle"]
    /\ cok = [c \in Callers |-> FALSE]
    /\ crel = [c \in Callers |-> "none"]

\* the zero Errors (lines 125-130) and no Add call made yet
ErrInit ==
    /\ pe = ZeroErrors
    /\ apc = [a \in Adders |-> "idle"]
    /\ aerr = [a \in Adders |-> NilErr]
    /\ acur = [a \in Adders |-> ZeroErrors]

DispatchInit(F) ==
    /\ fns \in F
    /\ calls = <<>>
    /\ dpc = "idle"
    /\ ret = NilResult
    /\ sema = NewSemaphore(1)
    /\ wg = 0
    /\ errs = ZeroErrors
    /\ upc = [i \in Units |-> "none"]
    /\ uerr = [i \in Units |-> NilErr]
    /\ current = [i \in Units |-> ZeroErrors]
    /\ invoked = [k \in Keys |-> 0]

Init == DispatchInit(FuncsValues) /\ SemInit /\ ErrInit

\* The part of a Do call up to wg.Wait: lines 51-66 (Func.Do) and 93-112
\* (Funcs.Do).  n goroutines are started, each at pc0.
StartCall(k, n, maxParallel, pc0) ==
    /\ dpc = "idle"
    /\ Len(calls) < MaxCalls
    /\ calls' = Append(calls, [kind |-> k, count |-> n])
    /\ ret' = NilResult
    /\ IF n = 0
       THEN /\ dpc' = "idle"
            /\ upc' = [i \in Units |-> "none"]
            /\ UNCHANGED <<sema, wg, errs>>
       ELSE IF NewSemaphorePanics(EffectiveMax(maxParallel))
       THEN /\ dpc' = "panic"
            /\ upc' = [i \in Units |-> "none"]
            /\ UNCHANGED <<sema, wg, errs>>
       ELSE /\ wg' = n
            /\ errs' = ZeroErrors
            /\ sema' = NewSemaphore(EffectiveMax(maxParallel))
            /\ upc' = [i \in Units |-> IF i < n THEN pc0 ELSE "none"]
            /\ dpc' = "wait"
    /\ uerr' = [i \in Units |-> NilErr]
    /\ current' = [i \in Units |-> ZeroErrors]
    /\ UNCHANGED <<fns, invoked>>
    /\ UNCHANGED <<svars, evars>>

\* Func.Do, lines 50-66
FuncDo(count, maxParallel) == StartCall("Func", count, maxParallel, "call")

\* Funcs.Do, lines 92-112
FuncsDo(maxParallel) == StartCall("Funcs", Len(fns), maxParallel, "acquire")

\* WaitReturn with a fault: the caller does not wait for the WaitGroup
ReturnNoWait(k) ==
    /\ dpc = "wait"
    /\ Call.kind = k
    /\ ret' = ErrorsErr(errs)
    /\ dpc' = "idle"
    /\ UNCHANGED <<fns, calls, sema, wg, errs, upc, uerr, current, invoked>>
    /\ UNCHANGED <<svars, evars>>

\* wg.Wait(); return errs.Err()   (lines 67-68 and 114-116)
WaitReturn(k) ==
    /\ dpc = "wait"
    /\ Call.kind = k
    /\ wg = 0
    /\ ret' = ErrorsErr(errs)
    /\ dpc' = "idle"
    /\ UNCHANGED <<fns, calls, sema, wg, errs, upc, uerr, current, invoked>>
    /\ UNCHANGED <<svars, evars>>

FuncDoWait == WaitReturn("Func")
FuncsDoWait == WaitReturn("Funcs")

\* ------------------------------------------------------------ goroutines
At(i, k, pc) == dpc = "wait" /\ Call.kind = k /\ i \in Spawned /\ upc[i] = pc
Goto(i, pc) == upc' = [upc EXCEPT ![i] = pc]

\* doOpAcquire with a fault: the acquire is not made before the task runs
doOpNoAcquire(i) ==
    /\ dpc = "wait" /\ Call.kind = "Funcs" /\ i \in Spawned /\ upc[i] = "acquire"
    /\ upc' = [upc EXCEPT ![i] = "call"]
    /\ UNCHANGED <<fns, calls, dpc, ret, sema, wg, errs, uerr, current, invoked>>
    /\ UNCHANGED <<svars, evars>>

\* doOp line 121: defer sema.AcquireRelease()() -- the operand of defer,
\* sema.AcquireRelease(), is evaluated now (it acquires); the func it returns
\* is what is deferred.
doOpAcquire(i) ==
    /\ At(i, "Funcs", "acquire")
    /\ CanSend(sema)
    /\ sema' = Send(sema)
    /\ Goto(i, "call")
    /\ UNCHANGED <<fns, calls, dpc, ret, wg, errs, uerr, current, invoked>>
    /\ UNCHANGED <<svars, evars>>

\* fn(i) is entered: line 74 (doOne) and line 122 (doOp)
CallTask(i, k) ==
    /\ At(i, k, "call")
    /\ invoked' = [invoked EXCEPT ![<<OpOf(i), i>>] = @ + 1]
    /\ Goto(i, "body")
    /\ UNCHANGED <<fns, calls, dpc, ret, sema, wg, errs, uerr, current>>
    /\ UNCHANGED <<svars, evars>>

\* doOneCall and doOpCall with a fault: every goroutine passes the last index
CallTaskLastIdx(i, k) ==
    /\ At(i, k, "call")
    /\ invoked' = [invoked EXCEPT ![<<OpOf(i), Call.count - 1>>] = @ + 1]
    /\ Goto(i, "body")
    /\ UNCHANGED <<fns, calls, dpc, ret, sema, wg, errs, uerr, current>>
    /\ UNCHANGED <<svars, evars>>

doOneCallLastIdx(i) == CallTaskLastIdx(i, "Func")
doOpCallLastIdx(i) == CallTaskLastIdx(i, "Funcs")

doOneCall(i) == CallTask(i, "Func")
doOpCall(i) == CallTask(i, "Funcs")

\* the task body returns e
TaskReturn(i, e) ==
    /\ dpc = "wait" /\ i \in Spawned /\ upc[i] = "body"
    /\ uerr' = [uerr EXCEPT ![i] = e]
    /\ Goto(i, "add")
    /\ UNCHANGED <<fns, calls, dpc, ret, sema, wg, errs, current, invoked>>
    /\ UNCHANGED <<svars, evars>>

\* InitSwap with a fault: a plain store of new([]error) in place of the CAS
InitStore(p, i) == [ptr |-> InitPtr(i), list |-> <<>>]

\* Errors.Add lines 142-145: CompareAndSwapPointer(&p.errs, nil, new([]error))
\* by goroutine i; whether it swapped or not is ignored by the code.
InitSwap(p, i) == IF p.ptr = NilPtr THEN [ptr |-> InitPtr(i), list |-> <<>>] ELSE p

\* Errors.Add lines 134-145: return on nil, else the initialising CAS
ErrorsAddInit(i) ==
    /\ dpc = "wait" /\ i \in Spawned /\ upc[i] = "add"
    /\ IF uerr[i] = NilErr
       THEN /\ Goto(i, "defer")
            /\ UNCHANGED errs
       ELSE /\ errs' = InitSwap(errs, i)
            /\ Goto(i, "load")
    /\ UNCHANGED <<fns, calls, dpc, ret, sema, wg, uerr, current, invoked>>
    /\ UNCHANGED <<svars, evars>>

\* Errors.Add line 150: current := atomic.LoadPointer(...)
ErrorsAddLoad(i) ==
    /\ dpc = "wait" /\ i \in Spawned /\ upc[i] = "load"
    /\ current' = [current EXCEPT ![i] = errs]
    /\ Goto(i, "cas")
    /\ UNCHANGED <<fns, calls, dpc, ret, sema, wg, errs, uerr, invoked>>
    /\ UNCHANGED <<svars, evars>>

\* Errors.Add line 153: newVal is err followed by the snapshot's errors
NewVal(err, cur) == <<err>> \o cur.list

\* SwapSucceeds with a fault: the swap is made without comparing
SwapUnconditional(p, cur) == TRUE

\* SwapSucceeds with a fault: the CAS compares against a pointer that is
\* never the stored one (the address of the local instead of its value)
SwapNeverMatches(p, cur) == FALSE

\* Errors.Add line 156: the CAS swaps iff p.errs still is the loaded pointer
SwapSucceeds(p, cur) == p.ptr = cur.ptr

\* Errors.Add lines 156-158: what a successful CAS by goroutine i publishes
Swapped(i, err, cur) == [ptr |-> NewValPtr(i), list |-> NewVal(err, cur)]

\* ErrorsAddCAS with a fault: a plain store in place of the compare-and-swap
ErrorsAddStore(i) ==
    /\ dpc = "wait" /\ i \in Spawned /\ upc[i] = "cas"
    /\ errs' = Swapped(i, uerr[i], current[i])
    /\ Goto(i, "defer")
    /\ current' = [current EXCEPT ![i] = ZeroErrors]
    /\ UNCHANGED <<fns, calls, dpc, ret, sema, wg, uerr, invoked>>
    /\ UNCHANGED <<svars, evars>>

\* Errors.Add lines 156-164: the CAS of the retry loop
ErrorsAddCAS(i) ==
    /\ dpc = "wait" /\ i \in Spawned /\ upc[i] = "cas"
    /\ IF SwapSucceeds(errs, current[i])
       THEN /\ errs' = Swapped(i, uerr[i], current[i])
            /\ Goto(i, "defer")
       ELSE /\ Goto(i, "load")
            /\ UNCHANGED errs
    /\ current' = [current EXCEPT ![i] = ZeroErrors]   \* the local is dead
    /\ UNCHANGED <<fns, calls, dpc, ret, sema, wg, uerr, invoked>>
    /\ UNCHANGED <<svars, evars>>

\* doOne line 73: defer sema.AcquireRelease() -- the deferred call is
\* AcquireRelease itself, so the acquire runs when doOne returns, after the
\* task; the release func it returns is dropped.
doOneDeferred(i) ==
    /\ At(i, "Func", "defer")
    /\ CanSend(sema)
    /\ sema' = Send(sema)
    /\ Goto(i, "wgdone")
    /\ UNCHANGED <<fns, calls, dpc, ret, wg, errs, uerr, current, invoked>>
    /\ UNCHANGED <<svars, evars>>

\* doOpDeferred with a fault: the token is not given back
doOpDeferredNoRelease(i) ==
    /\ At(i, "Funcs", "defer")
    /\ Goto(i, "wgdone")
    /\ UNCHANGED <<fns, calls, dpc, ret, sema, wg, errs, uerr, current, invoked>>
    /\ UNCHANGED <<svars, evars>>

\* doOp line 121: the deferred release func, s.Release (lines 242-244)
doOpDeferred(i) ==
    /\ At(i, "Funcs", "defer")
    /\ CanRecv(sema)
    /\ sema' = Recv(sema)
    /\ Goto(i, "wgdone")
    /\ UNCHANGED <<fns, calls, dpc, ret, wg, errs, uerr, current, invoked>>
    /\ UNCHANGED <<svars, evars>>

\* defer wg.Done(): lines 72 and 120
WgDone(i, k) ==
    /\ At(i, k, "wgdone")
    /\ wg' = wg - 1
    /\ Goto(i, "exit")
    /\ UNCHANGED <<fns, calls, dpc, ret, sema, errs, uerr, current, invoked>>
    /\ UNCHANGED <<svars, evars>>

doOneDone(i) == WgDone(i, "Func")
doOpDone(i) == WgDone(i, "Funcs")

Next ==
    \/ \E count \in 0..MaxCount, mp \in MaxParallelArgs : FuncDo(count, mp)
    \/ \E mp \in MaxParallelArgs : FuncsDo(mp)
    \/ FuncDoWait
    \/ FuncsDoWait
    \/ \E i \in Units : doOneCall(i)
    \/ \E i \in Units : doOneDeferred(i)
    \/ \E i \in Units : doOneDone(i)
    \/ \E i \in Units : doOpAcquire(i)
    \/ \E i \in Units : doOpCall(i)
    \/ \E i \in Units : doOpDeferred(i)
    \/ \E i \in Units : doOpDone(i)
    \/ \E i \in Units, e \in {NilErr} \cup ErrVals : TaskReturn(i, e)
    \/ \E i \in Units : ErrorsAddInit(i)
    \/ \E i \in Units : ErrorsAddLoad(i)
    \/ \E i \in Units : ErrorsAddCAS(i)

Spec == Init /\ [][Next]_vars

\* A step of some goroutine of the running call, or the caller's return from
\* wg.Wait.  The Go scheduler runs every runnable goroutine eventually and the
\* task bodies are assumed to terminate; starting a further call is up to the
\* caller and is not forced.
CallStep ==
    \/ FuncDoWait
    \/ FuncsDoWait
    \/ \E i \in Units : doOneCall(i) \/ doOneDeferred(i) \/ doOneDone(i)
    \/ \E i \in Units : doOpAcquire(i) \/ doOpCall(i) \/ doOpDeferred(i) \/ doOpDone(i)
    \/ \E i \in Units, e \in {NilErr} \cup ErrVals : TaskReturn(i, e)
    \/ \E i \in Units : ErrorsAddInit(i) \/ ErrorsAddLoad(i) \/ ErrorsAddCAS(i)

\* A caller that only runs its Funcs value, again and again, under the same
\* scheduling.
FuncsNext ==
    \/ \E mp \in MaxParallelArgs : FuncsDo(mp)
    \/ FuncsDoWait
    \/ \E i \in Units : doOpAcquire(i)
    \/ \E i \in Units : doOpCall(i)
    \/ \E i \in Units : doOpDeferred(i)
    \/ \E i \in Units : doOpDone(i)
    \/ \E i \in Units, e \in {NilErr} \cup ErrVals : TaskReturn(i, e)
    \/ \E i \in Units : ErrorsAddInit(i)
    \/ \E i \in Units : ErrorsAddLoad(i)
    \/ \E i \in Units : ErrorsAddCAS(i)

FuncsFairSpec == Init /\ [][FuncsNext]_vars /\ WF_vars(CallStep)

\* ------------------------------------------------ Semaphore, used directly
\* NewSemaphore(max), lines 199-204
SemNew(max) ==
    /\ sst = "new"
    /\ IF NewSemaphorePanics(max)
       THEN sst' = "panic" /\ UNCHANGED sem
       ELSE sst' = "ready" /\ sem' = NewSemaphore(max)
    /\ UNCHANGED <<cpc, cok, crel>>
    /\ UNCHANGED <<dvars, evars>>

\* caller c enters one of the methods
SemCall(c, m) ==
    /\ sst = "ready"
    /\ cpc[c] = "idle"
    /\ cpc' = [cpc EXCEPT ![c] = m]
    /\ UNCHANGED <<sst, sem, cok, crel>>
    /\ UNCHANGED <<dvars, evars>>

\* Acquire, lines 207-209
Acquire(c) ==
    /\ cpc[c] = "Acquire"
    /\ CanSend(sem)
    /\ sem' = Send(sem)
    /\ cpc' = [cpc EXCEPT ![c] = "idle"]
    /\ UNCHANGED <<sst, cok, crel>>
    /\ UNCHANGED <<dvars, evars>>

\* AcquireRelease, lines 217-220: the send, then return s.Release
AcquireRelease(c) ==
    /\ cpc[c] = "AcquireRelease"
    /\ CanSend(sem)
    /\ sem' = Send(sem)
    /\ crel' = [crel EXCEPT ![c] = "Release"]
    /\ cpc' = [cpc EXCEPT ![c] = "idle"]
    /\ UNCHANGED <<sst, cok>>
    /\ UNCHANGED <<dvars, evars>>

\* MaybeRelease with a fault: s.Release is returned whether or not ok
AlwaysRelease(ok) == "Release"

\* MaybeAcquire, lines 230-239: release = noop; select { case s <- struct{}{}:
\* ok = true; release = s.Release; default: }
MaybeRelease(ok) == IF ok THEN "Release" ELSE "noop"

MaybeAcquire(c) ==
    /\ cpc[c] = "MaybeAcquire"
    /\ LET ok == CanSend(sem) IN
        /\ sem' = IF ok THEN Send(sem) ELSE sem
        /\ cok' = [cok EXCEPT ![c] = ok]
        /\ crel' = [crel EXCEPT ![c] = MaybeRelease(ok)]
    /\ cpc' = [cpc EXCEPT ![c] = "idle"]
    /\ UNCHANGED sst
    /\ UNCHANGED <<dvars, evars>>

\* Release, lines 242-244
Release(c) ==
    /\ cpc[c] = "Release"
    /\ CanRecv(sem)
    /\ sem' = Recv(sem)
    /\ cpc' = [cpc EXCEPT ![c] = "idle"]
    /\ UNCHANGED <<sst, cok, crel>>
    /\ UNCHANGED <<dvars, evars>>

\* caller c invokes the release func it holds: noop (line 246) returns at
\* once, s.Release is entered
InvokeRelease(c) ==
    /\ sst = "ready"
    /\ cpc[c] = "idle"
    /\ crel[c] # "none"
    /\ cpc' = [cpc EXCEPT ![c] = IF crel[c] = "noop" THEN "idle" ELSE "Release"]
    /\ crel' = [crel EXCEPT ![c] = "none"]
    /\ UNCHANGED <<sst, sem, cok>>
    /\ UNCHANGED <<dvars, evars>>

SemMethods == {"Acquire", "AcquireRelease", "MaybeAcquire", "Release"}

SemNext ==
    \/ \E max \in (-1)..MaxSem : SemNew(max)
    \/ \E c \in Callers, m \in SemMethods : SemCall(c, m)
    \/ \E c \in Callers : Acquire(c)
    \/ \E c \in Callers : AcquireRelease(c)
    \/ \E c \in Callers : MaybeAcquire(c)
    \/ \E c \in Callers : Release(c)
    \/ \E c \in Callers : InvokeRelease(c)

SemSpecInit == DispatchInit({<<>>}) /\ SemInit /\ ErrInit

SemSpec == SemSpecInit /\ [][SemNext]_vars

\* ------------------------------------------------- Errors, used directly
\* Goroutines calling Add on one shared Errors, as TestErrors_Add does
\* through its tasks.  Adder a makes one call; its steps are the atomic
\* operations of Errors.Add (lines 133-165).

\* adder a calls p.Add(err)
AddEnter(a, err) ==
    /\ apc[a] = "idle"
    /\ apc' = [apc EXCEPT ![a] = "add"]
    /\ aerr' = [aerr EXCEPT ![a] = err]
    /\ UNCHANGED <<pe, acur>>
    /\ UNCHANGED <<dvars, svars>>

\* AddInit with a fault: the initialising CAS is made before the nil check
AddInitAllocatesFirst(a) ==
    /\ apc[a] = "add"
    /\ pe' = InitSwap(pe, a)
    /\ apc' = [apc EXCEPT ![a] = IF aerr[a] = NilErr THEN "done" ELSE "load"]
    /\ UNCHANGED <<aerr, acur>>
    /\ UNCHANGED <<dvars, svars>>

\* Errors.Add lines 134-145: return on nil, else the initialising CAS
AddInit(a) ==
    /\ apc[a] = "add"
    /\ IF aerr[a] = NilErr
       THEN /\ apc' = [apc EXCEPT ![a] = "done"]
            /\ UNCHANGED pe
       ELSE /\ pe' = InitSwap(pe, a)
            /\ apc' = [apc EXCEPT ![a] = "load"]
    /\ UNCHANGED <<aerr, acur>>
    /\ UNCHANGED <<dvars, svars>>

\* Errors.Add line 150: current := atomic.LoadPointer(...)
AddLoad(a) ==
    /\ apc[a] = "load"
    /\ acur' = [acur EXCEPT ![a] = pe]
    /\ apc' = [apc EXCEPT ![a] = "cas"]
    /\ UNCHANGED <<pe, aerr>>
    /\ UNCHANGED <<dvars, svars>>

\* Errors.Add lines 153-164: build newVal, CAS, return or goto retry
AddCAS(a) ==
    /\ apc[a] = "cas"
    /\ IF SwapSucceeds(pe, acur[a])
       THEN /\ pe' = Swapped(a, aerr[a], acur[a])
            /\ apc' = [apc EXCEPT ![a] = "done"]
       ELSE /\ apc' = [apc EXCEPT ![a] = "load"]
            /\ UNCHANGED pe
    /\ acur' = [acur EXCEPT ![a] = ZeroErrors]   \* the local is dead
    /\ UNCHANGED aerr
    /\ UNCHANGED <<dvars, svars>>

\* Errors.List (lines 178-183)
ErrorsList(p) == IF p.ptr = NilPtr THEN <<>> ELSE p.list

\* the steps of adder a inside Add
AddStep(a) == AddInit(a) \/ AddLoad(a) \/ AddCAS(a)

ErrNext ==
    \/ \E a \in Adders, err \in ErrVals \cup {NilErr} : AddEnter(a, err)
    \/ \E a \in Adders : AddInit(a)
    \/ \E a \in Adders : AddLoad(a)
    \/ \E a \in Adders : AddCAS(a)

ErrSpecInit == DispatchInit({<<>>}) /\ SemInit /\ ErrInit

ErrSpec == ErrSpecInit /\ [][ErrNext]_vars

\* A goroutine blocked in the channel send of Acquire or AcquireRelease is
\* woken and proceeds once the buffer has room: with room continuously
\* there, the send happens.
SemFairSpec ==
    /\ SemSpecInit
    /\ [][SemNext]_vars
    /\ \A c \in Callers : WF_vars(Acquire(c)) /\ WF_vars(AcquireRelease(c))

\* the adder whose goroutine the scheduler may leave stalled for ever
StalledAdder == NumAdds

\* Every goroutine inside Add keeps being scheduled, except possibly the
\* stalled one: Add has no blocking operation, so a scheduled goroutine
\* takes its next step.
ErrFairSpec ==
    /\ ErrSpecInit
    /\ [][ErrNext]_vars
    /\ \A a \in Adders \ {StalledAdder} : WF_vars(AddStep(a))

\* ================================================================ properties
\* task bodies that have started and not yet returned
Running == { i \in Units : upc[i] = "body" }

\* the last Do call has returned
Returned == calls # <<>> /\ dpc = "idle"

\* goroutines of the current call that returned a non-nil error
Failed == { i \in Spawned : uerr[i] # NilErr }

RECURSIVE Count(_, _)
Count(e, list) ==
    IF list = <<>> THEN 0
    ELSE (IF Head(list) = e THEN 1 ELSE 0) + Count(e, Tail(list))

\* list holds exactly the errors the goroutines returned, each once
ExactlyTheErrors(list) ==
    /\ Len(list) = Cardinality(Failed)
    /\ \A e \in ErrVals : Count(e, list) = Cardinality({ i \in Failed : uerr[i] = e })

\* call c invokes op with index idx
Covers(c, op, idx) ==
    /\ idx < c.count
    /\ op = IF c.kind = "Func" THEN FnRecv ELSE fns[idx + 1]

\* how many of the calls cs invoke op with idx
Expected(cs, op, idx) == Cardinality({ j \in 1..Len(cs) : Covers(cs[j], op, idx) })

Earlier == SubSeq(calls, 1, Len(calls) - 1)

\* invocations of op with idx made by the current call
InvokedNow(op, idx) == invoked[<<op, idx>>] - Expected(Earlier, op, idx)

\* the invocations the current call of kind k has made are exactly one for each
\* goroutine that is past its call of the task, with the goroutine's index
OncePerIndex(k) ==
    Call.kind = k =>
        \A op \in Ops, idx \in Units :
            InvokedNow(op, idx) =
                IF Covers(Call, op, idx) /\ upc[idx] \notin {"acquire", "call"}
                THEN 1 ELSE 0

\* C1: during Func.Do the number of task bodies that have started and not
\* returned never exceeds the cap.
C1_FuncDoWithinCap ==
    Call.kind = "Func" => Cardinality(Running) <= sema.cap

\* C2: a Func.Do call whose task bodies all return always gets to return:
\* while the caller is in wg.Wait some goroutine can step or the wait is over.
C2_FuncDoNeverStuck ==
    (Call.kind = "Func" /\ dpc = "wait") => ENABLED CallStep

\* C3: Func.Do invokes the task exactly once for each index below count and
\* for no other index, whatever the other tasks return; every index has been
\* invoked once the call returns or can go no further, and count = 0 invokes
\* nothing and returns nil.
C3_FuncDoOncePerIndex ==
    /\ OncePerIndex("Func")
    /\ (Call.kind = "Func" /\ (Returned \/ ~ENABLED CallStep)) =>
          \A idx \in Spawned : InvokedNow(FnRecv, idx) = 1
    /\ (Call.kind = "Func" /\ Call.count = 0) => (Returned /\ ret = NilResult)

C3_Witness ==
    /\ Call.kind = "Func" /\ Returned /\ Call.count >= 2
    /\ uerr[0] # NilErr /\ uerr[1] = NilErr
    /\ InvokedNow(FnRecv, 1) = 1

\* C4: the list handed to the combiner holds exactly the non-nil errors the
\* units returned, each once, and the result is nil when there is none; the
\* same is true of the stored list as soon as every unit is through Errors.Add.
C4_ErrorsExact ==
    /\ (dpc = "wait" /\ \A i \in Spawned : upc[i] \in {"defer", "wgdone", "exit"}) =>
          /\ ExactlyTheErrors(errs.list)
          /\ Failed = {} => errs.ptr = NilPtr
    /\ Returned =>
          /\ ExactlyTheErrors(ret.handed)
          /\ ret.nil = (Failed = {})

C4_Witness ==
    /\ Returned /\ Call.kind = "Funcs" /\ Call.count > sema.cap
    /\ Cardinality(Failed) = 2
    /\ ret.handed = <<"err1", "err2">>

\* C5: during Funcs.Do the number of task bodies that have started and not
\* returned never exceeds the cap.
C5_FuncsDoWithinCap ==
    Call.kind = "Funcs" => Cardinality(Running) <= sema.cap

C5_Witness ==
    /\ Call.kind = "Funcs" /\ Call.count > sema.cap
    /\ Cardinality(Running) = sema.cap
    /\ \E i \in Spawned : upc[i] = "acquire"

\* C6: under fair scheduling every Funcs.Do call returns, and every unit
\* waiting for the semaphore gets its token.
C6_FuncsDoReturns ==
    /\ (Call.kind = "Funcs" /\ dpc = "wait") ~> Returned
    /\ \A i \in Units :
          (Call.kind = "Funcs" /\ dpc = "wait" /\ upc[i] = "acquire") ~> (upc[i] = "call")

C6_Witness ==
    /\ Call.kind = "Funcs" /\ Returned /\ Call.count > sema.cap

\* C7: a Funcs.Do call invokes every task of the set exactly once with its
\* position as the index; m calls in a row on the same set have invoked every
\* task exactly m times; an empty set invokes nothing and returns nil.
OnlyFuncsCalls == \A j \in 1..Len(calls) : calls[j].kind = "Funcs"

C7_FuncsDoOncePerCall ==
    /\ OncePerIndex("Funcs")
    /\ (Call.kind = "Funcs" /\ Returned) =>
          /\ \A p \in 1..Len(fns) : InvokedNow(fns[p], p - 1) = 1
          /\ fns = <<>> => ret = NilResult
    /\ (OnlyFuncsCalls /\ dpc = "idle") =>
          \A op \in Ops, idx \in Units :
              invoked[<<op, idx>>] =
                  IF idx < Len(fns) /\ fns[idx + 1] = op THEN Len(calls) ELSE 0

C7_Witness ==
    /\ OnlyFuncsCalls /\ Len(calls) = 2 /\ Returned
    /\ Len(fns) = 2
    /\ invoked[<<fns[2], 1>>] = 2

\* C8: a Do call has not returned while a task body of it has yet to start
\* or is still running.
C8_ReturnAfterAll ==
    Returned => \A i \in Spawned : upc[i] \notin {"acquire", "call", "body"}

C8_Witness ==
    /\ Returned /\ Call.kind = "Func" /\ Call.count >= 2
    /\ \A i \in Spawned : upc[i] = "exit"

\* C9: the number of tokens held in a Semaphore is never negative and never
\* above max, whatever its callers do.
C9_SemWithinBounds ==
    sst = "ready" => (sem.len >= 0 /\ sem.len <= sem.cap)

C9_Witness ==
    /\ sst = "ready" /\ sem.cap >= 2 /\ sem.len = sem.cap
    /\ \E c \in Callers : cpc[c] = "Acquire"

\* C10: MaybeAcquire never blocks; it returns ok = true and takes one token
\* iff a token is free, else ok = false and the tokens are untouched.  Its
\* release func is s.Release when ok and noop otherwise; calling noop never
\* blocks and changes nothing, and a Release that completes gives back
\* exactly one token.
C10_MaybeAcquire ==
    /\ [](\A c \in Callers :
            /\ cpc[c] = "MaybeAcquire" => ENABLED MaybeAcquire(c)
            /\ (cpc[c] = "idle" /\ crel[c] = "noop") => ENABLED InvokeRelease(c))
    /\ [][\A c \in Callers :
            /\ (cpc[c] = "MaybeAcquire" /\ cpc'[c] # "MaybeAcquire") =>
                  /\ cok'[c] = CanSend(sem)
                  /\ sem' = IF cok'[c] THEN Send(sem) ELSE sem
                  /\ crel'[c] = IF cok'[c] THEN "Release" ELSE "noop"
            /\ (crel[c] = "noop" /\ crel'[c] = "none") =>
                  /\ sem' = sem
                  /\ cpc'[c] = "idle"
            /\ (cpc[c] = "Release" /\ cpc'[c] # "Release") =>
                  sem'.len = sem.len - 1
         ]_vars

C10_Witness ==
    \E c, d \in Callers :
        /\ ~cok[c] /\ crel[c] = "noop"
        /\ cok[d] /\ crel[d] = "Release"
        /\ sem.len = sem.cap

\* ---------------------------------------------------------------- C11
\* the Add calls that have returned / that are inside Add
AddReturned == { a \in Adders : apc[a] = "done" }
AddInProgress == { a \in Adders : apc[a] \in {"add", "load", "cas"} }

\* C11: for concurrent Add calls under every interleaving of their loads and
\* CASes, once all calls have returned the stored list holds every non-nil
\* error passed exactly once per call that passed it and nothing else (its
\* length is the number of non-nil Adds); nil is never stored.
C11_AllAddsKept ==
    /\ Count(NilErr, ErrorsList(pe)) = 0
    /\ AddReturned = Adders =>
          /\ \A e \in ErrVals :
                Count(e, ErrorsList(pe)) = Cardinality({ a \in Adders : aerr[a] = e })
          /\ Len(ErrorsList(pe)) = Cardinality({ a \in Adders : aerr[a] # NilErr })

\* all calls returned, one of them Add(nil), two racing with the same error
C11_Witness ==
    /\ AddReturned = Adders
    /\ \E a \in Adders : aerr[a] = NilErr
    /\ Len(ErrorsList(pe)) = NumAdds - 1
    /\ \E a, b \in Adders : a # b /\ aerr[a] = aerr[b] /\ aerr[a] # NilErr

\* ---------------------------------------------------------------- C12
\* C12: NewSemaphore(max) with max < 1 panics and yields no Semaphore; with
\* max >= 1 it returns a Semaphore of capacity max holding nothing, so all
\* max tokens are available.
C12_NewSemaphore ==
    [][\A max \in (-1)..MaxSem :
          SemNew(max) =>
             IF max < 1
             THEN sst' = "panic" /\ sem' = sem
             ELSE sst' = "ready" /\ sem'.cap = max /\ sem'.cap - sem'.len = max]_vars

\* NewSemaphore has panicked: there is no Semaphore and nobody can use one
C12_Witness == sst = "panic" /\ \A c \in Callers : cpc[c] = "idle"

\* ---------------------------------------------------------------- C13
\* the cap the documentation promises for maxParallel
DocumentedCap(mp) ==
    IF mp = <<>> THEN maxproc
    ELSE IF mp[1] <= 0 THEN maxproc ELSE mp[1]

\* C13: no Do call ever panics in NewSemaphore because of maxParallel: when
\* maxParallel is absent, zero or negative the call's Semaphore gets the
\* default cap (the host's parallelism), and when maxParallel[0] > 0 it gets
\* exactly that value.
C13_CapNeverInvalid ==
    /\ [](dpc # "panic")
    /\ [][\A mp \in MaxParallelArgs :
            (\/ \E count \in 1..MaxCount : FuncDo(count, mp)
             \/ fns # <<>> /\ FuncsDo(mp))
            => sema' = [cap |-> DocumentedCap(mp), len |-> 0]]_vars

\* a second Do call waiting on its goroutines, its cap the default
C13_Witness == Len(calls) = 2 /\ dpc = "wait" /\ sema.cap = maxproc /\ sema.cap >= 1

\* ---------------------------------------------------------------- C14
\* caller c is inside Acquire or AcquireRelease
Acquiring(c) == cpc[c] \in {"Acquire", "AcquireRelease"}

\* C14: Acquire and AcquireRelease block until a token is available and then
\* take it: a call made while all max tokens are held cannot complete, a
\* call completes only in a state with a free token and takes exactly one,
\* tokens come back only through a completed Release, and under fair
\* scheduling a waiting call does not wait forever while a token stays
\* available (it completes unless the Semaphore is full again).
C14_AcquireBlocks ==
    /\ [](\A c \in Callers :
            Acquiring(c) /\ sem.len = sem.cap
               => ~ENABLED (Acquire(c) \/ AcquireRelease(c)))
    /\ [][\A c \in Callers :
            Acquiring(c) /\ cpc'[c] = "idle"
               => sem.len < sem.cap /\ sem'.len = sem.len + 1]_vars
    /\ [][sem'.len < sem.len
            => \E c \in Callers : cpc[c] = "Release" /\ cpc'[c] = "idle"]_vars
    /\ \A c \in Callers :
            Acquiring(c) ~> (~Acquiring(c) \/ sem.len = sem.cap)

\* a call waits with every token held while another caller is about to
\* give one back
C14_Witness ==
    \E c, d \in Callers :
        Acquiring(c) /\ sem.len = sem.cap /\ sem.cap >= 1 /\ cpc[d] = "Release"

\* ---------------------------------------------------------------- C15
\* the goroutines of the current call that have not signalled the barrier
NotSignalled == { i \in Spawned : upc[i] # "exit" }

\* every running task body is covered by a held token, and every held token
\* belongs to a goroutine that has not yet signalled the barrier
TokensFollowUnits ==
    /\ Cardinality(Running) <= sema.len
    /\ sema.len <= Cardinality(NotSignalled)

\* C15: every unit started by Func.Do goes acquire token, invoke task,
\* release token, signal barrier: its task body never runs while the unit
\* holds no token, and every token it takes is returned before it signals.
C15_FuncUnitOrder == (Call.kind = "Func" /\ dpc = "wait") => TokensFollowUnits

\* ---------------------------------------------------------------- C16
\* the tokens of the directly used Semaphore that nobody holds
Available == sem.cap - sem.len

\* C16, as stated: Release is not checked, so a Release called when no token
\* is held goes through and leaves more than max tokens available.
C16_ReleaseUnchecked ==
    \A c \in Callers :
        (cpc[c] = "Release" /\ sem.len = 0)
           => ENABLED (Release(c) /\ sem'.cap - sem'.len > sem'.cap)

\* C16, amended: Release does not check who holds a token.  Called when no
\* token is held it blocks; called when some token is held it takes one
\* back, whoever acquired it; the tokens available never exceed max.
C16_ReleaseBlocksWhenEmpty ==
    /\ [](\A c \in Callers :
            cpc[c] = "Release" => (ENABLED Release(c) <=> sem.len > 0))
    /\ [][\A c \in Callers :
            cpc[c] = "Release" /\ cpc'[c] = "idle"
               => sem.len > 0 /\ Available' = Available + 1]_vars
    /\ [](Available <= sem.cap)

\* a caller is inside Release while no token is held
C16_Witness ==
    \E c \in Callers : sst = "ready" /\ cpc[c] = "Release" /\ sem.len = 0

\* ---------------------------------------------------------------- C17
\* the two states of the specification
IsEmpty == pe.ptr = NilPtr /\ pe.list = <<>>
IsPopulated == pe.ptr # NilPtr /\ Len(pe.list) >= 1

\* the Add calls of a non-nil error that are past the initialising CAS
PastInit == { a \in Adders : aerr[a] # NilErr /\ apc[a] \in {"load", "cas", "done"} }

\* C17, as stated: in every reachable state, also between the steps of
\* concurrent Add calls, the aggregator is either empty (no storage, zero
\* errors) or populated (storage allocated, at least one error).
C17_TwoStates == IsEmpty \/ IsPopulated

\* C17, amended: the aggregator is empty, populated, or allocated with zero
\* errors; the last only while an Add of a non-nil error is between its
\* initialising CAS and its successful swap.  With no Add in progress it is
\* empty or populated.  Storage is allocated only by an Add of a non-nil
\* error.
C17_EmptyAllocatedPopulated ==
    /\ IsEmpty \/ IsPopulated \/ (pe.ptr # NilPtr /\ pe.list = <<>>)
    /\ (pe.ptr # NilPtr /\ pe.list = <<>>) => PastInit \cap AddInProgress # {}
    /\ AddInProgress = {} => (IsEmpty \/ IsPopulated)
    /\ pe.ptr # NilPtr <=> PastInit # {}

\* storage allocated, nothing stored yet, two Adds racing behind the
\* initialising CAS
C17_Witness ==
    /\ pe.ptr # NilPtr /\ pe.list = <<>>
    /\ Cardinality(PastInit \cap AddInProgress) >= 2

\* ---------------------------------------------------------------- C18
\* adder a makes the initialising CAS of lines 142-145 in this step
InitStepBy(a) == apc[a] = "add" /\ aerr[a] # NilErr /\ apc'[a] = "load"

\* C18: when Add calls race on an empty aggregator the initialising swap
\* succeeds for exactly one of them (the one that finds nil) and the others
\* leave the winner's storage in place and go on to load it; the pointer
\* never goes back to nil, so the aggregator leaves the empty state once;
\* and the error of every racing writer that has returned is stored.
C18_InitOnce ==
    /\ [][\A a \in Adders :
            InitStepBy(a) =>
               IF pe.ptr = NilPtr
               THEN pe' = [ptr |-> InitPtr(a), list |-> <<>>]
               ELSE pe' = pe]_vars
    /\ [][pe.ptr # NilPtr => pe'.ptr # NilPtr]_vars
    /\ [](\A a \in Adders : apc[a] \in {"load", "cas"} => pe.ptr # NilPtr)
    /\ [](\A e \in ErrVals :
            Count(e, ErrorsList(pe)) >=
               Cardinality({ a \in AddReturned : aerr[a] = e }))

\* a won the initialising swap, b raced with it and lost, neither has
\* appended yet
C18_Witness ==
    \E a, b \in Adders :
        /\ a # b
        /\ pe = [ptr |-> InitPtr(a), list |-> <<>>]
        /\ apc[a] \in {"load", "cas"} /\ apc[b] \in {"load", "cas"}

\* ---------------------------------------------------------------- C19
\* adder a's CAS of line 156 fails in this step
CASFailsFor(a) == apc[a] = "cas" /\ apc'[a] = "load"

\* C19: Add is lock-free.  A CAS of the retry loop fails only if another
\* writer's swap succeeded since the snapshot was loaded; no step of an Add
\* in progress ever waits; the Adds of the goroutines that keep running all
\* return, wherever another Add is stalled; and the stalled goroutine's Add
\* returns too as soon as it is scheduled fairly.
C19_LockFree ==
    /\ [][\A a \in Adders :
            CASFailsFor(a) =>
               \E b \in AddReturned \ {a} :
                  /\ pe.ptr = NewValPtr(b)
                  /\ Len(pe.list) > Len(acur[a].list)]_vars
    /\ [](\A a \in AddInProgress : ENABLED AddStep(a))
    /\ \A a \in Adders \ {StalledAdder} : (apc[a] # "idle") ~> (apc[a] = "done")
    /\ WF_vars(AddStep(StalledAdder))
          => ((apc[StalledAdder] # "idle") ~> (apc[StalledAdder] = "done"))

\* a has lost the race (its snapshot is stale) while b sits between its load
\* and its swap
C19_Witness ==
    \E a, b \in Adders :
        /\ a # b
        /\ apc[a] = "cas" /\ pe.ptr # acur[a].ptr
        /\ apc[b] = "cas"

\* ---------------------------------------------------------------- C20
\* the goroutines of the current call whose Errors.Add is in progress or
\* yet to start
AddPending ==
    { i \in Spawned : upc[i] \in {"acquire", "call", "body", "add", "load", "cas"} }

\* C20: inside Func.Do and Funcs.Do the combine never overlaps an append: a
\* goroutine signals the barrier only after its Errors.Add has returned (its
\* error, if any, is stored by then), and in the step where the dispatcher
\* leaves wg.Wait and calls Errors.Err no Add is in progress or yet to start.
C20_CombineAfterAdds ==
    /\ [][\A i \in Spawned :
            (upc[i] # "exit" /\ upc'[i] = "exit") =>
               /\ upc[i] = "wgdone"
               /\ uerr[i] # NilErr => Count(uerr[i], ErrorsList(errs)) >= 1]_vars
    /\ [][(dpc = "wait" /\ dpc' = "idle") => AddPending = {}]_vars

\* the barrier is down, the dispatcher is about to call Errors.Err, and
\* every goroutine's Add of its error has returned
C20_Witness ==
    /\ dpc = "wait" /\ wg = 0
    /\ Cardinality(Failed) = Call.count /\ Call.count >= 2
    /\ Len(ErrorsList(errs)) = Call.count
====
